---- MODULE Spec2Model ----
(***************************************************************************)
(* A model of cage_keeper.py, the keeper that facilitates Emergency        *)
(* Shutdown: CageKeeper.process_block and the methods it calls.            *)
(*                                                                         *)
(* One step of the main specification is one invocation of process_block.  *)
(* The chain is the environment: every value the keeper reads from it      *)
(* (End.live, the block timestamp, the Vat, the auction houses, the urn    *)
(* history) is an input of the step.  A transaction submitted with         *)
(* transact() either succeeds or fails; transact() reports a failure by    *)
(* its return value, which the keeper never looks at.                      *)
(***************************************************************************)
EXTENDS Integers, Sequences, FiniteSets

\* ------------------------------------------------------------------ bounds
MaxNow == 2        \* block timestamps are 0..MaxNow
EndWhen == 1       \* End.when, the timestamp of the shutdown
MaxWait == 1       \* End.wait is 0..MaxWait
MaxErrors == 1     \* --max-errors is 0 or MaxErrors
MaxItems == 1      \* main specification: bids of a house, underwater urns of an ilk
MaxDai == 1        \* vat.dai(vow) is 0 or MaxDai
MaxFailed == 1     \* failed submissions counted in a run
MaxSeen == 2       \* the history counters saturate here
MaxKicks == 3      \* auction specification: kicks() is 0..MaxKicks
MaxUrns == 2       \* urn specification: urns per ilk
MaxWad == 2        \* urn specification: ink and art are 0..MaxWad (in Wad units)
RayUnit == 4       \* the fixed-point unit of a Ray (10^27 in pymaker), scaled down
WadToRay == 2      \* Ray(wad) multiplies by this factor (10^9 in pymaker), scaled down

\* ------------------------------------------------------- program constants
RequiredConfirmations == 12
ConfirmationCeiling == 13

Min(a, b) == IF a < b THEN a ELSE b

\* --------------------------------------------------------------- the chain
ZeroAddress == "0x0000000000000000000000000000000000000000"
Guy == "0xguy"

\* self.dss.collaterals.values(), in the deployment's order
Registry ==
  << [name |-> "ETH-A", clipper |-> FALSE, flipper |-> TRUE],
     [name |-> "BAT-A", clipper |-> TRUE,  flipper |-> FALSE],
     [name |-> "SAI",   clipper |-> FALSE, flipper |-> FALSE] >>

IlkNames == { Registry[i].name : i \in DOMAIN Registry }

\* The auction contract of a collateral, and the two global houses.
ClipperOf(name) == "MCD_CLIP_" \o name
FlipperOf(name) == "MCD_FLIP_" \o name
Houses == {"MCD_FLAP", "MCD_FLOP", ClipperOf("BAT-A"), FlipperOf("ETH-A")}

HouseType(h) ==
  IF h = "MCD_FLAP" THEN "flap"
  ELSE IF h = "MCD_FLOP" THEN "flop"
  ELSE IF h = ClipperOf("BAT-A") THEN "clip"
  ELSE "flip"

Bid(id, guy, bid, tab) == [id |-> id, guy |-> guy, bid |-> bid, tab |-> tab]
Urn(address, ilk, ink, art) == [address |-> address, ilk |-> ilk, ink |-> ink, art |-> art]

\* A house: the bids by id (kicks() of them) and, for a Clipper, the result
\* of its active_auctions() query.
House(book, active) == [book |-> book, active |-> active]

\* n bids that are open and below their tab
OpenBook(n) == [i \in 1..n |-> Bid(i, Guy, 80, 100)]
\* n urns with debt and no collateral
SunkUrns(name, n) == [i \in 1..n |-> Urn(i, name, 0, 1)]

IlkData(art) == [name \in IlkNames |-> [art |-> art[name], rate |-> RayUnit, spot |-> RayUnit]]
MatData == [name \in IlkNames |-> RayUnit]

\* What a block has read from the chain (the fields a block did not read
\* keep these values).
NoChain ==
  [ dai   |-> 0,
    ilk   |-> IlkData([name \in IlkNames |-> 0]),
    mat   |-> MatData,
    house |-> [h \in Houses |-> House(<<>>, <<>>)],
    urns  |-> [name \in IlkNames |-> <<>>] ]

\* Vat.ilks[ilk].Art: each collateral type has debt or has none; SAI has.
ArtChoices == { art \in [IlkNames -> {0, 1}] : art["SAI"] = 1 }

\* The chains the main specification reads when it facilitates: each house
\* has no cancellable bid or MaxItems of them, each scanned ilk has no
\* underwater urn or MaxItems of them.
FacilitateChains ==
  { [ dai   |-> 0,
      ilk   |-> IlkData(art),
      mat   |-> MatData,
      house |-> [h \in Houses |->
                   IF HouseType(h) = "clip" THEN House(<<>>, OpenBook(n[h]))
                   ELSE House(OpenBook(n[h]), <<>>)],
      urns  |-> [name \in IlkNames |->
                   IF name = "SAI" THEN <<>> ELSE SunkUrns(name, u[name])] ] :
    art \in ArtChoices, n \in [Houses -> {0, MaxItems}],
    u \in [{"ETH-A", "BAT-A"} -> {0, MaxItems}] }

\* The chains the main specification reads when it thaws.
ThawChains ==
  { [NoChain EXCEPT !.dai = d, !.ilk = IlkData(art)] :
    d \in {0, MaxDai}, art \in ArtChoices }

\* ------------------------------------------------------------------- state
VARIABLES
  arguments,        \* self.arguments: cageFacilitated (--previous-cage), psm, max_errors
  errors,           \* self.errors
  cageFacilitated,  \* self.cageFacilitated
  confirmations,    \* self.confirmations
  terminated,       \* self.lifecycle.terminate() has been called
  when,             \* End.when
  wait,             \* End.wait
  live,             \* End.live, as the last block read it
  now,              \* the block timestamp, as the last block read it
  chain,            \* what else the last block read from the chain
  entry,            \* the keeper's fields when the last block was entered
  branch,           \* the path the last block took
  trace,            \* the calls the last block submitted, in order, with its gathering reads
  failed,           \* history: submissions that failed in this run
  facilitations,    \* history: invocations of facilitate_processing_period
  finalBlocks,      \* history: blocks entered with live false and 12 confirmations
  thaws,            \* history: invocations of thaw_cage
  notLiveBlocks,    \* history: blocks that read live as false, counted up to 12
  out               \* function specifications: the call made and its result

vars == << arguments, errors, cageFacilitated, confirmations, terminated, when, wait,
           live, now, chain, entry, branch, trace, failed, facilitations,
           finalBlocks, thaws, notLiveBlocks, out >>

keeperVars == << arguments, errors, cageFacilitated, confirmations, terminated, when, wait,
                 live, now, entry, branch, trace, failed, facilitations,
                 finalBlocks, thaws, notLiveBlocks >>

\* ------------------------------------------------------ numeric (pymaker)
\* Ray(wad): a Wad converted to a Ray
Ray(wad) == wad * WadToRay
\* Ray * Ray: the product, in Ray units, rounded down
RayMul(a, b) == (a * b) \div RayUnit

\* ------------------------------------------------------- auction discovery
\* the flip test with the bid allowed to equal the tab
flip_active_or_covered(bid) == bid.guy # ZeroAddress /\ bid.bid <= bid.tab

\* the test of the flip loop, lines 336-338
flip_active(bid) == bid.guy # ZeroAddress /\ bid.bid < bid.tab

\* the test of the flap and flop loop, lines 345-346
yank_active(bid) == bid.guy # ZeroAddress

\* for index in range(1, auction_count): bid = parentObj._bids(index) ...
RECURSIVE scan_bids(_, _, _, _)
scan_bids(type, book, index, auction_count) ==
  IF index >= auction_count THEN <<>>
  ELSE LET bid == book[index]
           keep == IF type = "flip" THEN flip_active(bid) ELSE yank_active(bid)
       IN (IF keep THEN <<bid>> ELSE <<>>) \o scan_bids(type, book, index + 1, auction_count)

cage_active_auctions(parentObj, ch) ==
  LET house == ch.house[parentObj]
      auction_count == Len(house.book) + 1
  IN IF HouseType(parentObj) = "clip" THEN house.active
     ELSE scan_bids(HouseType(parentObj), house.book, 1, auction_count)

\* The dictionaries "clips" and "flips" are sequences of (key, bids) in
\* insertion order, which is the order of the registry.
all_active_auctions(ch) ==
  LET withClip == SelectSeq(Registry, LAMBDA c: c.clipper)
      withFlip == SelectSeq(Registry, LAMBDA c: ~c.clipper /\ c.flipper)
  IN [ clips |-> [i \in 1..Len(withClip) |->
                    [key |-> withClip[i].name,
                     bids |-> cage_active_auctions(ClipperOf(withClip[i].name), ch)]],
       flips |-> [i \in 1..Len(withFlip) |->
                    [key |-> withFlip[i].name,
                     bids |-> cage_active_auctions(FlipperOf(withFlip[i].name), ch)]],
       flaps |-> cage_active_auctions("MCD_FLAP", ch),
       flops |-> cage_active_auctions("MCD_FLOP", ch) ]

\* ----------------------------------------------------------- urn scanning
\* the urn test with equal values flagged too
is_underwater_or_equal(urn, ch) ==
  RayMul(Ray(urn.art), ch.ilk[urn.ilk].rate)
    >= RayMul(RayMul(Ray(urn.ink), ch.ilk[urn.ilk].spot), ch.mat[urn.ilk])

\* lines 291-296: is the urn underwater, with its ilk refreshed from the Vat
is_underwater(urn, ch) ==
  LET ilk == ch.ilk[urn.ilk]
      mat == ch.mat[urn.ilk]
      usdDebt == RayMul(Ray(urn.art), ilk.rate)
      usdCollateral == RayMul(RayMul(Ray(urn.ink), ilk.spot), mat)
  IN usdDebt > usdCollateral

\* for urn in urns.values(): ...
RECURSIVE scan_urns(_, _, _)
scan_urns(urns, i, ch) ==
  IF i > Len(urns) THEN <<>>
  ELSE (IF is_underwater(urns[i], ch) THEN <<urns[i]>> ELSE <<>>) \o scan_urns(urns, i + 1, ch)

\* for ilk in ilks: urns = urn_history.get_urns() ...
RECURSIVE get_underwater_urns(_, _)
get_underwater_urns(ilks, ch) ==
  IF ilks = <<>> THEN <<>>
  ELSE scan_urns(ch.urns[Head(ilks)], 1, ch) \o get_underwater_urns(Tail(ilks), ch)

\* ------------------------------------------------------------ submissions
Call(op, target, n) == [op |-> op, target |-> target, n |-> n]

MutatingOps ==
  { "flap.yank", "flop.yank", "end.cage", "end.snip", "end.skip", "end.skim",
    "vow.heal", "end.thaw", "end.flow", "esm.deny", "esm.burn" }
FacilitationOps == {"flap.yank", "flop.yank", "end.cage", "end.snip", "end.skip", "end.skim"}
ThawOps == {"vow.heal", "end.thaw", "end.flow", "esm.deny", "esm.burn"}

\* the transactions among the events of a block
Submitted(t) == SelectSeq(t, LAMBDA e: e.op \in MutatingOps)

RECURSIVE Flatten(_)
Flatten(ss) == IF ss = <<>> THEN <<>> ELSE Head(ss) \o Flatten(Tail(ss))

\* get_collaterals without the filter on art
get_collaterals_any_debt(ch) ==
  SelectSeq(Registry, LAMBDA l: l.name # "SAI")

get_collaterals(ch) ==
  LET collaterals_filtered == SelectSeq(Registry, LAMBDA l: l.name # "SAI")
  IN SelectSeq(collaterals_filtered, LAMBDA l: ch.ilk[l.name].art > 0)

\* yank_auctions with the two loops exchanged
yank_auctions_flops_first(flapBids, flopBids) ==
  [i \in 1..Len(flopBids) |-> Call("flop.yank", "MCD_FLOP", flopBids[i].id)]
  \o [i \in 1..Len(flapBids) |-> Call("flap.yank", "MCD_FLAP", flapBids[i].id)]

yank_auctions(flapBids, flopBids) ==
  [i \in 1..Len(flapBids) |-> Call("flap.yank", "MCD_FLAP", flapBids[i].id)]
  \o [i \in 1..Len(flopBids) |-> Call("flop.yank", "MCD_FLOP", flopBids[i].id)]

\* facilitate_processing_period with the urn scan moved before the first call
facilitate_processing_period_scan_first(ch) ==
  LET collaterals == get_collaterals(ch)
      ilks == [i \in 1..Len(collaterals) |-> collaterals[i].name]
      auctions == all_active_auctions(ch)
      urns == get_underwater_urns(ilks, ch)
  IN << Call("get_collaterals", "", 0), Call("all_active_auctions", "", 0),
        Call("get_underwater_urns", "", 0) >>
     \o yank_auctions(auctions.flaps, auctions.flops)
     \o [i \in 1..Len(ilks) |-> Call("end.cage", ilks[i], 0)]
     \o Flatten([k \in 1..Len(auctions.clips) |->
           [j \in 1..Len(auctions.clips[k].bids) |->
              Call("end.snip", auctions.clips[k].key, auctions.clips[k].bids[j].id)]])
     \o Flatten([k \in 1..Len(auctions.flips) |->
           [j \in 1..Len(auctions.flips[k].bids) |->
              Call("end.skip", auctions.flips[k].key, auctions.flips[k].bids[j].id)]])
     \o [i \in 1..Len(urns) |-> Call("end.skim", urns[i].ilk, urns[i].address)]

\* The events of facilitate_processing_period, in program order.
facilitate_processing_period(ch) ==
  LET collaterals == get_collaterals(ch)
      ilks == [i \in 1..Len(collaterals) |-> collaterals[i].name]
      auctions == all_active_auctions(ch)
      cages == [i \in 1..Len(ilks) |-> Call("end.cage", ilks[i], 0)]
      snips == Flatten([k \in 1..Len(auctions.clips) |->
                 [j \in 1..Len(auctions.clips[k].bids) |->
                    Call("end.snip", auctions.clips[k].key, auctions.clips[k].bids[j].id)]])
      skips == Flatten([k \in 1..Len(auctions.flips) |->
                 [j \in 1..Len(auctions.flips[k].bids) |->
                    Call("end.skip", auctions.flips[k].key, auctions.flips[k].bids[j].id)]])
      urns == get_underwater_urns(ilks, ch)
      skims == [i \in 1..Len(urns) |-> Call("end.skim", urns[i].ilk, urns[i].address)]
  IN << Call("get_collaterals", "", 0), Call("all_active_auctions", "", 0) >>
     \o yank_auctions(auctions.flaps, auctions.flops)
     \o cages \o snips \o skips
     \o << Call("get_underwater_urns", "", 0) >>
     \o skims

\* lines 251-256: the calls of one collateral
flow_and_deny(collateral) ==
  << Call("end.flow", collateral.name, 0) >>
  \o (IF collateral.clipper THEN << Call("esm.deny", ClipperOf(collateral.name), 0) >> ELSE <<>>)
  \o (IF collateral.flipper THEN << Call("esm.deny", FlipperOf(collateral.name), 0) >> ELSE <<>>)

\* lines 244-245
heal_vow(dai) == IF dai > 0 THEN << Call("vow.heal", "MCD_VOW", dai) >> ELSE <<>>

\* lines 259-261
flow_psm(psm) ==
  IF psm THEN << Call("end.flow", "PSM-USDC-A", 0), Call("esm.deny", "PSM", 0) >> ELSE <<>>

\* thaw_cage with the heal moved behind end.thaw
thaw_cage_heal_late(ch, psm) ==
  LET collaterals == get_collaterals(ch)
  IN << Call("get_collaterals", "", 0), Call("end.thaw", "", 0) >>
     \o (IF ch.dai > 0 THEN << Call("vow.heal", "MCD_VOW", ch.dai) >> ELSE <<>>)
     \o Flatten([i \in 1..Len(collaterals) |->
           << Call("end.flow", collaterals[i].name, 0) >>
           \o (IF collaterals[i].clipper
                THEN << Call("esm.deny", ClipperOf(collaterals[i].name), 0) >> ELSE <<>>)
           \o (IF collaterals[i].flipper
                THEN << Call("esm.deny", FlipperOf(collaterals[i].name), 0) >> ELSE <<>>)])
     \o (IF psm THEN << Call("end.flow", "PSM-USDC-A", 0), Call("esm.deny", "PSM", 0) >>
         ELSE <<>>)

\* The events of thaw_cage, in program order.
thaw_cage(ch, psm) ==
  LET collaterals == get_collaterals(ch)
  IN << Call("get_collaterals", "", 0) >>
     \o heal_vow(ch.dai)
     \o << Call("end.thaw", "", 0) >>
     \o Flatten([i \in 1..Len(collaterals) |-> flow_and_deny(collaterals[i])])
     \o flow_psm(psm)

\* lines 180-184: thaw_cage, then the burn
thaw_and_burn(ch, psm) == thaw_cage(ch, psm) \o << Call("esm.burn", "", 0) >>

\* ------------------------------------------------------------- check_cage
\* Variants of the tests below, each with one plausible slip.
too_many_errors_strict(e, max_errors) == e > max_errors
caged_and_confirmed_any_live(l, c) == c = RequiredConfirmations
caged_and_confirmed_late(l, c) == ~l /\ c = ConfirmationCeiling
not_facilitated_unlatched(f) == TRUE
processing_concluded_early(n, thawedCage) == n + 1 >= thawedCage

processing_concluded_always(n, thawedCage) == TRUE
processing_concluded_never(n, thawedCage) == FALSE
still_confirming_any_live(l, c) == c < ConfirmationCeiling
still_confirming_stalled(l, c) == ~l /\ c + 1 < RequiredConfirmations

\* line 152
too_many_errors(e, max_errors) == e >= max_errors
\* line 165
caged_and_confirmed(l, c) == ~l /\ c = RequiredConfirmations
\* line 174
not_facilitated(f) == ~f
\* line 179
processing_concluded(n, thawedCage) == n >= thawedCage
\* line 192
still_confirming(l, c) == ~l /\ c < ConfirmationCeiling

\* lines 174-180 with the elif of line 179 read as a second if
facilitate_block_falls_through(ch, concluded, psm) ==
  facilitate_processing_period(ch)
  \o (IF concluded THEN thaw_and_burn(ch, psm) ELSE <<>>)

\* lines 174-177: the events of the block that finds cageFacilitated false;
\* the elif of line 179 is not looked at in that block
facilitate_block(ch, concluded, psm) == facilitate_processing_period(ch)

Entry ==
  [ confirmations |-> confirmations, cageFacilitated |-> cageFacilitated,
    errors |-> errors, failed |-> failed, live |-> live, now |-> now ]

Bump(n) == Min(n + 1, MaxSeen)

\* What a block that submitted the events t leaves behind: the events, and
\* how many of its transactions failed.  self.errors is not touched.
Submit(t) ==
  /\ trace' = t
  /\ \E k \in 0..Min(Len(Submitted(t)), MaxFailed - failed) : failed' = failed + k

check_cage ==
  \E l \in BOOLEAN, n \in now..MaxNow :
    LET thawedCage == when + wait IN
    /\ live' = l
    /\ now' = n
    /\ entry' = Entry
    /\ finalBlocks' = IF ~l /\ confirmations = 12 THEN Bump(finalBlocks) ELSE finalBlocks
    /\ notLiveBlocks' = IF ~l THEN Min(notLiveBlocks + 1, RequiredConfirmations) ELSE notLiveBlocks
    /\ UNCHANGED << arguments, errors, terminated, when, wait, out >>
    /\ IF caged_and_confirmed(l, confirmations) THEN
         IF not_facilitated(cageFacilitated) THEN
           /\ branch' = "facilitate"
           /\ cageFacilitated' = TRUE
           /\ facilitations' = Bump(facilitations)
           /\ \E ch \in FacilitateChains :
                /\ chain' = ch
                /\ Submit(facilitate_block(ch, processing_concluded(n, thawedCage), arguments.psm))
           /\ UNCHANGED << confirmations, thaws >>
         ELSE IF processing_concluded(n, thawedCage) THEN
           /\ branch' = "thaw"
           /\ thaws' = Bump(thaws)
           /\ \E ch \in ThawChains :
                /\ chain' = ch
                /\ Submit(thaw_and_burn(ch, arguments.psm))
           /\ UNCHANGED << confirmations, cageFacilitated, facilitations >>
         ELSE
           /\ branch' = "wait"
           /\ chain' = NoChain
           /\ trace' = <<>>
           /\ UNCHANGED << confirmations, cageFacilitated, failed, facilitations, thaws >>
       ELSE IF still_confirming(l, confirmations) THEN
         /\ branch' = "confirm"
         /\ confirmations' = confirmations + 1
         /\ chain' = NoChain
         /\ trace' = <<>>
         /\ UNCHANGED << cageFacilitated, failed, facilitations, thaws >>
       ELSE
         /\ branch' = "idle"
         /\ chain' = NoChain
         /\ trace' = <<>>
         /\ UNCHANGED << confirmations, cageFacilitated, failed, facilitations, thaws >>

\* lifecycle.terminate(): the lifecycle dispatches no further block
lifecycle_terminate ==
  /\ terminated' = TRUE
  /\ branch' = "terminate"
  /\ entry' = Entry
  /\ chain' = NoChain
  /\ trace' = <<>>
  /\ UNCHANGED << arguments, errors, cageFacilitated, confirmations, when, wait, live, now,
                  failed, facilitations, finalBlocks, thaws, notLiveBlocks, out >>

process_block ==
  /\ ~terminated
  /\ IF too_many_errors(errors, arguments.max_errors)
     THEN lifecycle_terminate
     ELSE check_cage

initial_cageFacilitated_ignored(args) == FALSE

\* line 111
initial_cageFacilitated(args) == args.cageFacilitated

NoCall == [fn |-> "none", arg |-> <<>>, result |-> <<>>]

\* CageKeeper.__init__, and the chain before the first block
Init ==
  /\ arguments \in [cageFacilitated : BOOLEAN, psm : BOOLEAN, max_errors : {0, MaxErrors}]
  /\ errors = 0
  /\ cageFacilitated = initial_cageFacilitated(arguments)
  /\ confirmations = 0
  /\ terminated = FALSE
  /\ when = EndWhen
  /\ wait \in 0..MaxWait
  /\ live = TRUE
  /\ now = 0
  /\ chain = NoChain
  /\ branch = "init"
  /\ trace = <<>>
  /\ failed = 0
  /\ entry = Entry
  /\ facilitations = 0
  /\ finalBlocks = 0
  /\ thaws = 0
  /\ notLiveBlocks = 0
  /\ out = NoCall

Next == process_block

Spec == Init /\ [][Next]_vars

\* A run started without --previous-cage and with errors below max_errors.
InitLive ==
  /\ Init
  /\ ~arguments.cageFacilitated
  /\ errors < arguments.max_errors

\* A block dispatched once the system is caged: its read of live is false.
block_after_cage == process_block /\ ~live'

\* lifecycle.on_block dispatches process_block for every block that arrives;
\* blocks keep arriving, and so do blocks that read live as false.
SpecLive == InitLive /\ [][Next]_vars /\ WF_vars(block_after_cage)

\* ---------------------------------------------- cage_active_auctions alone
\* The bids a house can hold: ids 1..kicks, a bidder or none, a bid below
\* its tab or equal to it.
BidChoices(id) == { Bid(id, guy, bid, 100) : guy \in {ZeroAddress, Guy}, bid \in {80, 100} }
RECURSIVE BooksOfLen(_)
BooksOfLen(k) ==
  IF k = 0 THEN { <<>> }
  ELSE { Append(book, bid) : book \in BooksOfLen(k - 1), bid \in BidChoices(k) }
Books == UNION { BooksOfLen(k) : k \in 0..MaxKicks }

AuctionChains ==
  { [NoChain EXCEPT !.house[h] =
       IF HouseType(h) = "clip" THEN House(book, OpenBook(n)) ELSE House(book, <<>>)] :
    h \in Houses, book \in Books, n \in 0..MaxKicks }

InitAuctions ==
  /\ arguments = [cageFacilitated |-> FALSE, psm |-> FALSE, max_errors |-> MaxErrors]
  /\ errors = 0
  /\ cageFacilitated = FALSE
  /\ confirmations = 0
  /\ terminated = FALSE
  /\ when = EndWhen
  /\ wait = 0
  /\ live = TRUE
  /\ now = 0
  /\ chain \in AuctionChains
  /\ branch = "init"
  /\ trace = <<>>
  /\ failed = 0
  /\ entry = Entry
  /\ facilitations = 0
  /\ finalBlocks = 0
  /\ thaws = 0
  /\ notLiveBlocks = 0
  /\ out = NoCall

call_cage_active_auctions ==
  /\ out = NoCall
  /\ \E parentObj \in Houses :
       out' = [fn |-> "cage_active_auctions", arg |-> parentObj,
               result |-> cage_active_auctions(parentObj, chain)]
  /\ UNCHANGED << keeperVars, chain >>

SpecAuctions == InitAuctions /\ [][call_cage_active_auctions]_vars

\* ----------------------------------------------- get_underwater_urns alone
RECURSIVE UrnLists(_, _)
UrnLists(name, k) ==
  IF k = 0 THEN { <<>> }
  ELSE { Append(urns, Urn(k, name, ink, art)) :
           urns \in UrnLists(name, k - 1), ink \in 0..MaxWad, art \in 0..MaxWad }

\* The urn histories: at most MaxUrns urns over the two scanned ilks.
UrnHistories ==
  UNION { UNION { { [name \in IlkNames |->
                      IF name = "ETH-A" THEN e ELSE IF name = "BAT-A" THEN b ELSE <<>>] :
                    e \in UrnLists("ETH-A", ke), b \in UrnLists("BAT-A", kb) } :
                  kb \in 0..(MaxUrns - ke) } : ke \in 0..MaxUrns }

\* rate, spot and mat of ETH-A vary around 1.0; those of the others are 1.0
UrnChains ==
  { [NoChain EXCEPT !.urns = urns,
                    !.ilk["ETH-A"] = [art |-> 1, rate |-> rate, spot |-> spot],
                    !.mat["ETH-A"] = mat] :
    urns \in UrnHistories, rate \in {RayUnit, RayUnit + 1},
    spot \in {RayUnit - 1, RayUnit}, mat \in {RayUnit, RayUnit + 2} }

InitUrns ==
  /\ arguments = [cageFacilitated |-> FALSE, psm |-> FALSE, max_errors |-> MaxErrors]
  /\ errors = 0
  /\ cageFacilitated = FALSE
  /\ confirmations = 0
  /\ terminated = FALSE
  /\ when = EndWhen
  /\ wait = 0
  /\ live = TRUE
  /\ now = 0
  /\ chain \in UrnChains
  /\ branch = "init"
  /\ trace = <<>>
  /\ failed = 0
  /\ entry = Entry
  /\ facilitations = 0
  /\ finalBlocks = 0
  /\ thaws = 0
  /\ notLiveBlocks = 0
  /\ out = NoCall

\* the lists of collateral types the keeper can pass
IlkLists == { <<>>, <<"ETH-A">>, <<"BAT-A">>, <<"ETH-A", "BAT-A">> }

call_get_underwater_urns ==
  /\ out = NoCall
  /\ \E ilks \in IlkLists :
       out' = [fn |-> "get_underwater_urns", arg |-> ilks,
               result |-> get_underwater_urns(ilks, chain)]
  /\ UNCHANGED << keeperVars, chain >>

SpecUrns == InitUrns /\ [][call_get_underwater_urns]_vars

\* ------------------------------------------------------------------ claims
\* The paths of check_cage.
CheckCagePaths == {"facilitate", "thaw", "wait", "confirm", "idle"}

\* The transactions of the last block.
Calls == Submitted(trace)
OpsOf(t) == { t[i].op : i \in DOMAIN t }

\* C1: a block submits a mutating call only if it read live as false and was
\* entered with exactly 12 confirmations; a run started with --previous-cage
\* starts from 0 confirmations like any other and is under the same rule.
C1_CallsOnlyWhenFinal ==
  /\ Calls # <<>> => (~live /\ entry.confirmations = 12)
  /\ branch = "init" => confirmations = 0

C1_Witness ==
  /\ arguments.cageFacilitated
  /\ Calls # <<>>
  /\ ~live /\ entry.confirmations = 12

\* C2: confirmations stays within 0..12 and never decreases; a check_cage
\* that reads live as false adds exactly 1 to it below 12 and leaves it at 12
\* from then on.
C2_ConfirmationCounter ==
  /\ confirmations \in 0..12
  /\ confirmations >= entry.confirmations
  /\ (branch \in CheckCagePaths /\ ~live) =>
       confirmations = IF entry.confirmations < 12 THEN entry.confirmations + 1 ELSE 12

C2_Witness ==
  /\ branch \in CheckCagePaths /\ ~live
  /\ entry.confirmations = 12 /\ confirmations = 12
  /\ finalBlocks = 2

\* C3: facilitate_processing_period is invoked at most once in a run; in a
\* run not started with --previous-cage it is invoked on the first block
\* entered with live false and 12 confirmations and on no later one;
\* cageFacilitated, once true, stays true.
C3_FacilitatesOnce ==
  /\ facilitations <= 1
  /\ entry.cageFacilitated => cageFacilitated
  /\ branch = "facilitate" => (~entry.cageFacilitated /\ cageFacilitated)
  /\ ~arguments.cageFacilitated =>
       /\ branch = "facilitate" <=> (branch \in CheckCagePaths /\ finalBlocks = 1
                                      /\ ~live /\ entry.confirmations = 12)
       /\ facilitations = (IF finalBlocks >= 1 THEN 1 ELSE 0)

C3_Witness ==
  /\ ~arguments.cageFacilitated
  /\ finalBlocks = 2 /\ facilitations = 1
  /\ ~live /\ entry.confirmations = 12 /\ branch \in {"thaw", "wait"}

\* C4: a block submits a thaw-phase call (heal, thaw, flow, deny, burn) only
\* if its timestamp is at least End.when + End.wait and cageFacilitated was
\* already true when the block was entered.
C4_ThawOnlyAfterWait ==
  (OpsOf(Calls) \cap ThawOps # {}) => (now >= when + wait /\ entry.cageFacilitated)

C4_Witness ==
  /\ OpsOf(Calls) \cap ThawOps # {}
  /\ now = when + wait
  /\ wait > 0

\* The positions of the last block's transactions that hold one of ops.
At(ops) == { i \in DOMAIN Calls : Calls[i].op \in ops }
\* The auction contract of a collateral of the registry.
ContractOf(name) ==
  LET c == CHOOSE c \in { Registry[i] : i \in DOMAIN Registry } : c.name = name
  IN IF c.clipper THEN ClipperOf(name) ELSE FlipperOf(name)
\* The positions of the flows of the registry's collaterals, and of the PSM's.
CollateralFlows == { i \in At({"end.flow"}) : Calls[i].target \in IlkNames }
PsmFlows == { i \in At({"end.flow"}) : Calls[i].target = "PSM-USDC-A" }

\* C5: a block that thaws submits, in this order: vow.heal (if and only if
\* the vow's dai is positive), end.thaw, for each collateral its end.flow
\* directly followed by the esm.deny of its auction contract, the flow and
\* the deny of the PSM if and only if --psm is given, and esm.burn last.
C5_ThawOrder ==
  branch = "thaw" =>
    /\ OpsOf(Calls) \subseteq ThawOps
    /\ At({"vow.heal"}) = (IF chain.dai > 0 THEN {1} ELSE {})
    /\ At({"end.thaw"}) = (IF chain.dai > 0 THEN {2} ELSE {1})
    /\ \A i \in At({"vow.heal"}) : \A j \in At({"end.thaw", "end.flow"}) : i < j
    /\ \A i \in At({"end.thaw"}) : \A j \in At({"end.flow", "esm.deny", "esm.burn"}) : i < j
    /\ \A i \in CollateralFlows :
         /\ i + 1 \in At({"esm.deny"})
         /\ Calls[i + 1].target = ContractOf(Calls[i].target)
    /\ \A i, j \in CollateralFlows : Calls[i].target = Calls[j].target => i = j
    /\ \A i \in At({"esm.deny"}) : i - 1 \in At({"end.flow"})
    /\ Cardinality(PsmFlows) = (IF arguments.psm THEN 1 ELSE 0)
    /\ \A i \in PsmFlows :
         /\ \A j \in CollateralFlows : j < i
         /\ i + 1 \in At({"esm.deny"}) /\ Calls[i + 1].target = "PSM"
         /\ i + 2 = Len(Calls)
    /\ At({"esm.burn"}) = {Len(Calls)}

C5_Witness ==
  /\ branch = "thaw"
  /\ chain.dai > 0
  /\ arguments.psm
  /\ Cardinality(CollateralFlows) = 2

\* C6: a run started with --previous-cage never invokes
\* facilitate_processing_period, gathers no work list and submits no
\* facilitation call; its blocks entered with live false and 12
\* confirmations go to the thaw timing: they thaw if the wait is over and
\* wait otherwise.
C6_RestartSkipsFacilitation ==
  arguments.cageFacilitated =>
    /\ facilitations = 0
    /\ branch # "facilitate"
    /\ OpsOf(trace) \cap (FacilitationOps \cup {"all_active_auctions", "get_underwater_urns"}) = {}
    /\ (branch \in CheckCagePaths /\ ~live /\ entry.confirmations = 12) =>
         branch = (IF now >= when + wait THEN "thaw" ELSE "wait")

C6_Witness ==
  /\ arguments.cageFacilitated
  /\ finalBlocks = 1
  /\ branch = "thaw"

\* C7: self.errors equals the number of submissions that failed in the run.
C7_ErrorsCountFailures == errors = failed

\* C8: a block entered with errors >= max_errors requests termination and
\* does nothing else: it reads nothing from the chain, changes no field and
\* submits nothing; any other block runs check_cage; errors never decreases.
C8_ErrorCeiling ==
  /\ errors >= entry.errors
  /\ branch # "init" =>
       IF entry.errors >= arguments.max_errors
       THEN /\ branch = "terminate" /\ terminated
            /\ trace = <<>> /\ chain = NoChain
            /\ live = entry.live /\ now = entry.now
            /\ confirmations = entry.confirmations
            /\ cageFacilitated = entry.cageFacilitated
            /\ errors = entry.errors
       ELSE branch \in CheckCagePaths /\ ~terminated

C8_Witness == branch = "terminate" /\ terminated /\ entry.errors >= arguments.max_errors

\* The debt and the collateral value of a position, at Ray precision.
DebtValue(p) == RayMul(Ray(p.art), chain.ilk[p.ilk].rate)
CollateralValue(p) == RayMul(RayMul(Ray(p.ink), chain.ilk[p.ilk].spot), chain.mat[p.ilk])
\* The positions the history provider returns for an ilk.
Positions(ilk) == { chain.urns[ilk][i] : i \in DOMAIN chain.urns[ilk] }
Elements(seq) == { seq[i] : i \in DOMAIN seq }

\* C9: get_underwater_urns returns a position of a collateral type it was
\* given if and only if art * rate > ink * spot * mat, strictly; the result
\* holds each such position once, those of an earlier collateral type before
\* those of a later one, and nothing else.
C9_UnderwaterIffDebtExceeds ==
  out.fn = "get_underwater_urns" =>
    LET ilks == out.arg
        result == out.result
        flagged(k) == { p \in Positions(ilks[k]) : DebtValue(p) > CollateralValue(p) }
    IN /\ \A k \in DOMAIN ilks : \A p \in Positions(ilks[k]) :
            (p \in Elements(result)) <=> (DebtValue(p) > CollateralValue(p))
       /\ Elements(result) = UNION { flagged(k) : k \in DOMAIN ilks }
       /\ Len(result) = Cardinality(Elements(result))
       /\ \A i, j \in DOMAIN result :
            i < j => \E k, m \in DOMAIN ilks :
                       /\ result[i] \in flagged(k) /\ result[j] \in flagged(m)
                       /\ k < m \/ (k = m /\ result[i].address < result[j].address)

C9_Witness ==
  /\ out.fn = "get_underwater_urns"
  /\ Len(out.arg) = 2
  /\ \E p \in Positions("ETH-A") :
       DebtValue(p) > 0 /\ DebtValue(p) = CollateralValue(p) /\ p \notin Elements(out.result)
  /\ \E p \in Positions("BAT-A") : p \in Elements(out.result)

\* C10: for a flipper with kicks() = K, cage_active_auctions returns exactly
\* the bids with id in 1..K whose guy is not the zero address and whose bid
\* is below the tab, each once and in the order of their ids.
C10_FlipClassification ==
  (out.fn = "cage_active_auctions" /\ HouseType(out.arg) = "flip") =>
    LET book == chain.house[out.arg].book
        K == Len(book)
        result == out.result
    IN /\ \A id \in 1..K :
            (book[id] \in Elements(result)) <=>
              (book[id].guy # ZeroAddress /\ book[id].bid < book[id].tab)
       /\ \A j \in DOMAIN result : result[j].id \in 1..K /\ result[j] = book[result[j].id]
       /\ \A i, j \in DOMAIN result : i < j => result[i].id < result[j].id

C10_Witness ==
  /\ out.fn = "cage_active_auctions" /\ HouseType(out.arg) = "flip"
  /\ LET book == chain.house[out.arg].book
     IN /\ Len(book) = 3
        /\ book[1] = Bid(1, Guy, 100, 100) /\ book[1] \notin Elements(out.result)
        /\ book[2] = Bid(2, ZeroAddress, 80, 100) /\ book[2] \notin Elements(out.result)
        /\ book[3] = Bid(3, Guy, 80, 100) /\ book[3] \in Elements(out.result)

\* C12: thaw_cage and the burn are submitted in at most one block of a run.
C12_ThawsOnce == thaws <= 1

\* The place of a facilitation call in the order of its groups.
GroupOf(op) ==
  CASE op = "flap.yank" -> 1
    [] op = "flop.yank" -> 2
    [] op = "end.cage"  -> 3
    [] op = "end.snip"  -> 4
    [] op = "end.skip"  -> 5
    [] op = "end.skim"  -> 6
    [] OTHER -> 0
\* The collateral types get_collaterals keeps: not SAI, with debt in the Vat.
WithDebt == { name \in IlkNames \ {"SAI"} : chain.ilk[name].art > 0 }

EventsAt(ops) == { i \in DOMAIN trace : trace[i].op \in ops }

\* C14 as stated: both gathering steps come before the first facilitation call.
C14_AllGatheredFirst ==
  branch = "facilitate" =>
    \A g \in EventsAt({"all_active_auctions", "get_underwater_urns"}) :
      \A c \in EventsAt(FacilitationOps) : g < c

\* C14 as the code has it: the auctions are gathered before the first call;
\* the urns are scanned once, after every yank, cage, snip and skip and
\* before every skim.
C14_AuctionsFirstUrnsBeforeSkim ==
  branch = "facilitate" =>
    /\ Cardinality(EventsAt({"all_active_auctions"})) = 1
    /\ Cardinality(EventsAt({"get_underwater_urns"})) = 1
    /\ \A g \in EventsAt({"all_active_auctions"}) : \A c \in EventsAt(FacilitationOps) : g < c
    /\ \A g \in EventsAt({"get_underwater_urns"}) :
         /\ \A c \in EventsAt(FacilitationOps \ {"end.skim"}) : c < g
         /\ \A c \in EventsAt({"end.skim"}) : g < c

C14_Witness ==
  /\ branch = "facilitate"
  /\ EventsAt({"flap.yank"}) # {} /\ EventsAt({"end.skip"}) # {}
  /\ EventsAt({"end.skim"}) # {}

\* C15: when a call of the facilitating block failed, the next block entered
\* with live false and confirmations == 12 facilitates again.
C15_FailedFacilitationRetried ==
  [][ ( /\ branch = "facilitate" /\ failed > entry.failed
        /\ branch' \in CheckCagePaths /\ ~live' /\ entry'.confirmations = RequiredConfirmations )
      => branch' = "facilitate" ]_vars

C17_EventuallyFacilitatesThenThaws ==
  ( <>[](~live) /\ <>[](now >= when + wait) )
  => <>(branch = "thaw" /\ facilitations >= 1 /\ entry.cageFacilitated)

C17_Witness ==
  /\ branch = "thaw"
  /\ ~arguments.cageFacilitated
  /\ facilitations = 1
  /\ errors < arguments.max_errors

\* C18: a block entered with live false, confirmations == 12 and
\* cageFacilitated true whose timestamp is below when + wait submits no
\* call and leaves confirmations, cageFacilitated and errors as they were.
C18_ProcessingWaits ==
  ( /\ branch \in CheckCagePaths /\ ~live
    /\ entry.confirmations = RequiredConfirmations /\ entry.cageFacilitated
    /\ now < when + wait )
  => /\ Calls = <<>>
     /\ confirmations = entry.confirmations
     /\ cageFacilitated = entry.cageFacilitated
     /\ errors = entry.errors

C18_Witness ==
  /\ branch = "wait" /\ ~live
  /\ entry.confirmations = RequiredConfirmations /\ entry.cageFacilitated
  /\ now < when + wait
  /\ finalBlocks = MaxSeen

\* C19: a block that reads live as true submits no call and leaves
\* confirmations, cageFacilitated and errors as they were; confirmations is
\* the number of blocks that read live as false, counted up to 12.
C19_LiveBlockChangesNothing ==
  /\ (branch \in CheckCagePaths /\ live) =>
       /\ Calls = <<>>
       /\ confirmations = entry.confirmations
       /\ cageFacilitated = entry.cageFacilitated
       /\ errors = entry.errors
  /\ confirmations = notLiveBlocks

C19_Witness ==
  /\ branch = "idle" /\ live /\ ~entry.live
  /\ entry.confirmations \in 1..(RequiredConfirmations - 1)
  /\ confirmations = entry.confirmations

\* C20: no block submits both facilitation calls and thaw calls; the block
\* that facilitates comes before any thaw, also when wait is 0, and a block
\* that thaws was entered with cageFacilitated already true.
C20_FacilitationAndThawApart ==
  /\ ~( /\ OpsOf(Calls) \cap FacilitationOps # {}
        /\ OpsOf(Calls) \cap ThawOps # {} )
  /\ branch = "facilitate" => (OpsOf(Calls) \cap ThawOps = {} /\ thaws = 0)
  /\ branch = "thaw" => (OpsOf(Calls) \cap FacilitationOps = {} /\ entry.cageFacilitated)

C20_Witness ==
  /\ branch = "facilitate"
  /\ wait = 0 /\ now >= when + wait
  /\ Calls # <<>>

====
